---- MODULE Spec2Model ----
(***************************************************************************)
(* Model of the projection engine of btckrakenlive (src/data_utils.py):    *)
(* get_stock_data, generate_future_projections and                         *)
(* generate_future_projections_from_point.                                 *)
(*                                                                         *)
(* Conventions.  Python lists are sequences; a Python index i is the       *)
(* element At(s, i) = s[i + 1].  A date string "%d-%b-%Y %H:%M" is the     *)
(* number of whole minutes since the epoch, a datetime / timedelta is a    *)
(* number of seconds, a calendar date "%d-%b-%Y" is a number of days.  A   *)
(* float price is the exact fraction [n, d] of the arithmetic the code     *)
(* performs on it.  A movement string is a sequence of "U" and "D".        *)
(***************************************************************************)
EXTENDS Integers, Sequences, FiniteSets, TLC

VARIABLES market, pc, fn, interval, start_idx, future_points, num_lines,
          stock_data, outcome, index_keys, future_projections,
          latest_price, latest_time, table_data, all_projection_values,
          clip_projections, iteration, script_error

\* the script-level state of the dashboard (src/streamlit_app.py)
dashboard_vars == <<latest_price, latest_time, table_data, all_projection_values,
                    clip_projections, iteration, script_error>>

vars == <<market, pc, fn, interval, start_idx, future_points, num_lines,
          stock_data, outcome, index_keys, future_projections, dashboard_vars>>

----------------------------------------------------------------------------
(* Bounds of the model *)

\* longest history the exchange returns; histories have MaxLen - 1 or MaxLen bars
MaxLen == 20

\* largest num_lines a caller passes
MaxNumLines == 2

(* Program constants *)

\* PATTERN_LENGTH = 6 / length = 6
PATTERN_LENGTH == 6

\* default of the parameter future_points, and the value the dashboard passes
DefaultFuturePoints == 10

\* the dashboard's default OHLC interval (minutes): st.radio(..., index=1)
DefaultOhlcInterval == 5

----------------------------------------------------------------------------
(* Python list helpers *)

At(s, i) == s[i + 1]

Min(a, b) == IF a < b THEN a ELSE b

Max(a, b) == IF a > b THEN a ELSE b

\* s[:n] for n >= 0
Take(s, n) == SubSeq(s, 1, Min(n, Len(s)))

\* s[-n:] for n > 0
LastN(s, n) == SubSeq(s, Max(1, Len(s) - n + 1), Len(s))

\* s[1:]
Tail1(s) == SubSeq(s, 2, Len(s))

\* list.reverse()
Reverse(s) == [i \in 1..Len(s) |-> s[Len(s) + 1 - i]]

----------------------------------------------------------------------------
(* datetime helpers *)

\* datetime.strftime("%d-%b-%Y %H:%M"): seconds are dropped
strftime(dt) == dt \div 60

\* datetime.strptime(s, "%d-%b-%Y %H:%M")
strptime(s) == s * 60

\* datetime.strftime('%d-%b-%Y'): the calendar day
strftime_day(dt) == dt \div 86400

\* timedelta(minutes=m), timedelta(hours=h), timedelta(days=d)
timedelta_minutes(m) == m * 60

timedelta_hours(h) == h * 3600

timedelta_days(d) == d * 86400

----------------------------------------------------------------------------
(* The exchange: what the Kraken OHLC endpoint answers *)

\* shapes of six successive closes the price series is composed of
Segments == << <<1, 2, 3, 4, 3, 2>>, <<1, 1, 1, 1, 1, 1>>, <<3, 1, 3, 1, 3, 1>> >>

NumSegments == (MaxLen + 5) \div 6

RECURSIVE Concat(_, _)
Concat(choice, j) ==
    IF j > Len(choice) THEN <<>> ELSE Segments[choice[j]] \o Concat(choice, j + 1)

\* close prices of a series of n bars composed of the chosen segments
Closes(choice, n) == Take(Concat(choice, 1), n)

\* where a bar is missing from the series: nowhere, after the first bar, before the last bar
Gaps == {"none", "first", "last"}

GapIndex(gap, n) == IF gap = "first" THEN 1 ELSE IF gap = "last" THEN n - 1 ELSE 0

\* OHLC intervals (minutes) requested from the exchange
Intervals == {DefaultOhlcInterval, 60, 1440}

Markets ==
    { [kind |-> "ok", closes |-> Closes(choice, n), gap |-> GapIndex(g, n)] :
          choice \in [1..NumSegments -> 1..Len(Segments)],
          n \in (MaxLen - 1)..MaxLen, g \in Gaps }
    \cup { [kind |-> k, closes |-> <<>>, gap |-> 0] : k \in {"error", "invalid"} }

\* opening time (epoch seconds) of bar i (0-based) of the series at interval iv
BarTime(m, iv, i) ==
    (i + (IF m.gap > 0 /\ i >= m.gap THEN 1 ELSE 0)) * iv * 60

\* response.json() of requests.get(KRAKEN_API_URL, ...)
KrakenResponse(m, iv) ==
    [error  |-> IF m.kind = "error" THEN <<"EGeneral:Invalid arguments">> ELSE <<>>,
     has_result |-> m.kind = "ok",
     ohlc   |-> [i \in 1..Len(m.closes) |->
                    [time |-> BarTime(m, iv, i - 1), close |-> m.closes[i]]]]

----------------------------------------------------------------------------
(* get_stock_data *)

\* float(item[4]): a price as an exact fraction
float(c) == [n |-> c, d |-> 1]

get_stock_data(data) ==
    IF data.error # <<>> THEN <<>>
    ELSE IF ~data.has_result THEN <<>>
    ELSE [i \in 1..Len(data.ohlc) |->
             [date  |-> strftime(data.ohlc[i].time),
              close |-> float(data.ohlc[i].close)]]

----------------------------------------------------------------------------
(* Movement strings and the regex search *)

\* a >= b on prices (positive denominators)
PriceGE(a, b) == a.n * b.d >= b.n * a.d

\* 'U' if later["close"] >= earlier["close"] else 'D'
Symbol(later, earlier) == IF PriceGE(later.close, earlier.close) THEN "U" ELSE "D"

\* whether string s holds pattern p at 0-based offset k
OccursAt(s, p, k) ==
    /\ k >= 0
    /\ k + Len(p) <= Len(s)
    /\ \A j \in 1..Len(p) : s[k + j] = p[j]

\* [match.start() for match in re.finditer(p, s)] from offset pos on:
\* leftmost matches, each search resuming at the end of the previous match
RECURSIVE finditer_from(_, _, _)
finditer_from(p, s, pos) ==
    IF pos > Len(s) THEN <<>>
    ELSE IF OccursAt(s, p, pos)
         THEN <<pos>> \o finditer_from(p, s, IF Len(p) = 0 THEN pos + 1 ELSE pos + Len(p))
         ELSE finditer_from(p, s, pos + 1)

finditer(p, s) == finditer_from(p, s, 0)

----------------------------------------------------------------------------
(* float arithmetic of the replay, on exact fractions *)

\* (a - b) / b
PriceChange(a, b) == [n |-> a.n * b.d - b.n * a.d, d |-> a.d * b.n]

\* price * (1 + price_change)
Compound(price, price_change) ==
    [n |-> price.n * (price_change.d + price_change.n), d |-> price.d * price_change.d]

----------------------------------------------------------------------------
(* generate_future_projections_from_point *)

\* what a call hands back: the value returned (or the exception raised) and,
\* for each returned line, the index_dict key it was built from
Returned(keys, lines) == [outcome |-> "returned", keys |-> keys, lines |-> lines]

Raised(exception) == [outcome |-> exception, keys |-> <<>>, lines |-> <<>>]

\* data_subset[-PATTERN_LENGTH-1:] of data_subset = stock_data[:start_idx+1]
pattern_data(sd, sidx) == LastN(Take(sd, sidx + 1), PATTERN_LENGTH + 1)

\* the query: movement string of pattern_data
result_string_from_point(sd, sidx) ==
    LET pd == pattern_data(sd, sidx)
    IN  [i \in 1..(Len(pd) - 1) |-> Symbol(pd[i + 1], pd[i])]

\* ''.join([... for i in range(1, len(stock_data)-PATTERN_LENGTH)])
search_string(sd) ==
    [i \in 1..(Len(sd) - PATTERN_LENGTH - 1) |-> Symbol(At(sd, i), At(sd, i - 1))]

\* matches = [match.start() for match in re.finditer(string_to_match, search_string)]
matches_from_point(sd, sidx) ==
    finditer(LastN(result_string_from_point(sd, sidx), PATTERN_LENGTH), search_string(sd))

\* the mutation: a match may end exactly at the anchor
NotOverlappingQuery_Touching(matched_index, sidx) == matched_index + PATTERN_LENGTH <= sidx

\* matched_index + PATTERN_LENGTH < start_idx
NotOverlappingQuery(matched_index, sidx) == matched_index + PATTERN_LENGTH < sidx

\* list(index_dict.keys()): the accepted matches, in insertion order
index_dict_from_point(sd, sidx) ==
    IF Len(result_string_from_point(sd, sidx)) >= PATTERN_LENGTH
    THEN LET matches == matches_from_point(sd, sidx)
         IN  IF Len(matches) > 1
             THEN SelectSeq(matches, LAMBDA m : NotOverlappingQuery(m, sidx))
             ELSE <<>>
    ELSE <<>>

\* the mutation: the last source pair of the history is not replayed
HasSourcePair_Short(pattern_idx, sd) == pattern_idx + 2 < Len(sd)

\* if pattern_idx + 1 < len(stock_data)
HasSourcePair(pattern_idx, sd) == pattern_idx + 1 < Len(sd)

\* the mutation: the spacing of the first two bars, subtracted the wrong way round
data_delta_Swapped(sd) == strptime(At(sd, 0).date) - strptime(At(sd, 1).date)

\* delta = next_date - curr_date, the spacing of the first two bars
data_delta(sd) == strptime(At(sd, 1).date) - strptime(At(sd, 0).date)

\* the date appended for replay step i after the date last
next_date_from_point(sd, sidx, i, last) ==
    IF i > 0 THEN last + data_delta(sd)
    ELSE IF sidx + 1 < Len(sd) THEN strptime(At(sd, sidx + 1).date)
    ELSE IF Len(sd) > 1
         THEN LET date1 == strptime(At(sd, Len(sd) - 2).date)
                  date2 == strptime(At(sd, Len(sd) - 1).date)
                  interval_minutes == (date2 - date1) \div 60
              IN  last + timedelta_minutes(interval_minutes)
         ELSE last + timedelta_hours(1)

\* for i in range(future_points): ... , from step i on
RECURSIVE replay_from_point(_, _, _, _, _, _)
replay_from_point(sd, sidx, key, fp, i, acc) ==
    IF i >= fp THEN acc
    ELSE LET pattern_idx == key + PATTERN_LENGTH + i
         IN  IF HasSourcePair(pattern_idx, sd)
             THEN LET price_change ==
                          PriceChange(At(sd, pattern_idx).close, At(sd, pattern_idx + 1).close)
                      last_price == acc.prices[Len(acc.prices)]
                      last_date == acc.dates[Len(acc.dates)]
                  IN  replay_from_point(sd, sidx, key, fp, i + 1,
                          [prices |-> Append(acc.prices, Compound(last_price, price_change)),
                           dates  |-> Append(acc.dates,
                                             next_date_from_point(sd, sidx, i, last_date))])
             ELSE replay_from_point(sd, sidx, key, fp, i + 1, acc)

\* future_line = [{"date": ..., "close": ...} for i in range(len(future_prices))]
future_line(acc) ==
    [i \in 1..Len(acc.prices) |-> [date |-> strftime(acc.dates[i]), close |-> acc.prices[i]]]

\* the mutation: the anchor is taken one bar early
start_point_Previous(sd, sidx) == At(sd, sidx - 1)

\* start_point = stock_data[start_idx]
start_point(sd, sidx) == At(sd, sidx)

\* the mutation: the number of points of the query window is reported
reported_pattern_length_Points(sd, sidx, key) == PATTERN_LENGTH + 1

\* "pattern_length": PATTERN_LENGTH
reported_pattern_length(sd, sidx, key) == PATTERN_LENGTH

\* one projection dictionary
projection_from_point(sd, sidx, key, fp) ==
    LET start == start_point(sd, sidx)
        acc == replay_from_point(sd, sidx, key, fp, 0,
                   [prices |-> <<start.close>>, dates |-> <<strptime(start.date)>>])
    IN  [label |-> <<"Projection from point ", sidx, "/", Len(sd)>>,
         data |-> future_line(acc),
         pattern_length |-> reported_pattern_length(sd, sidx, key)]

\* the mutation: an anchor one past the end of the history is let through
index_out_of_range_Off(sd, sidx) == sidx > Len(sd)

\* start_idx >= len(stock_data)
index_out_of_range(sd, sidx) == sidx >= Len(sd)

generate_future_projections_from_point(sd, sidx, fp, nl) ==
    IF sd = <<>> \/ index_out_of_range(sd, sidx) THEN Returned(<<>>, <<>>)
    ELSE IF sidx < PATTERN_LENGTH THEN Returned(<<>>, <<>>)
    ELSE LET keys == Take(index_dict_from_point(sd, sidx), nl)
         IN  IF sidx >= Len(sd) THEN Raised("IndexError")
             ELSE Returned(keys,
                      [j \in 1..Len(keys) |-> projection_from_point(sd, sidx, keys[j], fp)])

----------------------------------------------------------------------------
(* generate_future_projections *)

\* result_string of the reversed stock_data
result_string(sd) ==
    [i \in 1..(Len(sd) - 1) |-> Symbol(At(sd, i), At(sd, i - 1))]

\* matches = [match.start() for match in re.finditer(result_string[:length], result_string)]
matches_latest(sd) == finditer(Take(result_string(sd), PATTERN_LENGTH), result_string(sd))

\* list(index_dict.keys()): matches[1:] when there are more than 2 matches
index_dict_latest(sd) ==
    LET matches == matches_latest(sd)
    IN  IF Len(matches) > 2 THEN Tail1(matches) ELSE <<>>

\* the timedelta added per replayed step
time_step(iv) ==
    IF iv = 60 THEN timedelta_hours(1)
    ELSE IF iv = 1440 THEN timedelta_days(1)
    ELSE timedelta_minutes(iv)

\* for i in range(future_points): ... , from step i on
RECURSIVE replay_latest(_, _, _, _, _, _)
replay_latest(sd, iv, key, fp, i, acc) ==
    IF i >= fp THEN acc
    ELSE IF key + i + 1 < Len(sd)
         THEN LET price_change ==
                      PriceChange(At(sd, key + i).close, At(sd, key + i + 1).close)
                  last_price == acc.prices[Len(acc.prices)]
                  last_date == acc.dates[Len(acc.dates)]
              IN  replay_latest(sd, iv, key, fp, i + 1,
                      [prices |-> Append(acc.prices, Compound(last_price, price_change)),
                       dates  |-> Append(acc.dates, last_date + time_step(iv))])
         ELSE replay_latest(sd, iv, key, fp, i + 1, acc)

\* one projection dictionary
projection_latest(sd, iv, key, fp) ==
    LET last_close == At(sd, 0).close
        last_date == strptime(At(sd, 0).date)
        acc == replay_latest(sd, iv, key, fp, 0,
                   [prices |-> <<last_close>>, dates |-> <<last_date>>])
        match_date == strptime(At(sd, key).date)
    IN  [label |-> <<"Projection (Match: ", strftime_day(match_date), ")">>,
         data |-> future_line(acc)]

\* sd is get_stock_data(pair, interval)
generate_future_projections(sd, iv, fp, nl) ==
    IF sd = <<>> THEN Returned(<<>>, <<>>)
    ELSE LET rev == Reverse(sd)
             keys == Take(index_dict_latest(rev), nl)
         IN  Returned(keys, [j \in 1..Len(keys) |-> projection_latest(rev, iv, keys[j], fp)])

----------------------------------------------------------------------------
(* The state machine: one market, one call *)

\* values of future_points and num_lines the callers pass
FuturePoints == {0, DefaultFuturePoints}

NumLines == 1..MaxNumLines

\* anchors a caller passes, in and out of the bounds of the history
StartIdxs == -1..MaxLen

\* a script variable no statement has assigned yet, and one holding a value
Unassigned == [assigned |-> FALSE, value |-> <<>>]

Assigned(v) == [assigned |-> TRUE, value |-> v]

\* the dashboard before its first statement
DashboardIdle ==
    /\ latest_price = Unassigned
    /\ latest_time = Unassigned
    /\ table_data = Unassigned
    /\ all_projection_values = Unassigned
    /\ iteration = 0
    /\ script_error = "none"

Init ==
    /\ DashboardIdle
    /\ clip_projections = TRUE
    /\ market \in Markets
    /\ pc = "idle"
    /\ fn = "none"
    /\ interval = 0
    /\ start_idx = 0
    /\ future_points = 0
    /\ num_lines = 0
    /\ stock_data = <<>>
    /\ outcome = "none"
    /\ index_keys = <<>>
    /\ future_projections = <<>>

\* generate_future_projections(pair, interval, future_points, num_lines)
CallGenerateFutureProjections ==
    /\ pc = "idle"
    /\ \E iv \in Intervals, fp \in FuturePoints, nl \in NumLines :
         LET sd == get_stock_data(KrakenResponse(market, iv))
             r == generate_future_projections(sd, iv, fp, nl)
         IN  /\ fn' = "generate_future_projections"
             /\ interval' = iv
             /\ start_idx' = 0
             /\ future_points' = fp
             /\ num_lines' = nl
             /\ stock_data' = Reverse(sd)
             /\ outcome' = r.outcome
             /\ index_keys' = r.keys
             /\ future_projections' = r.lines
    /\ pc' = "done"
    /\ UNCHANGED <<market, dashboard_vars>>

\* generate_future_projections_from_point(stock_data, start_idx, future_points, num_lines)
\* on the history the dashboard fetched
CallGenerateFutureProjectionsFromPoint ==
    /\ pc = "idle"
    /\ \E sidx \in StartIdxs, fp \in FuturePoints, nl \in NumLines :
         LET sd == get_stock_data(KrakenResponse(market, DefaultOhlcInterval))
             r == generate_future_projections_from_point(sd, sidx, fp, nl)
         IN  /\ fn' = "generate_future_projections_from_point"
             /\ interval' = DefaultOhlcInterval
             /\ start_idx' = sidx
             /\ future_points' = fp
             /\ num_lines' = nl
             /\ stock_data' = sd
             /\ outcome' = r.outcome
             /\ index_keys' = r.keys
             /\ future_projections' = r.lines
    /\ pc' = "done"
    /\ UNCHANGED <<market, dashboard_vars>>

Next == CallGenerateFutureProjections \/ CallGenerateFutureProjectionsFromPoint

Spec == Init /\ [][Next]_vars

TypeOK ==
    /\ pc \in {"idle", "done"}
    /\ outcome \in {"none", "returned", "IndexError"}
    /\ Len(index_keys) = Len(future_projections)

----------------------------------------------------------------------------
(* The dashboard's main loop (src/streamlit_app.py, while True) *)

\* number of loop iterations followed
MaxIterations == 2

\* last_20_data = stock_data[-20:]
DisplayPoints == 20

\* projection_start_points = range(9, 20)
FirstStartPoint == 9

\* convert_to_aest: the same format, ten hours later
convert_to_aest(utc_time) == strftime(strptime(utc_time) + timedelta_hours(10))

\* what the exchange may answer to one request: its series, or a failure
Answers(m) ==
    {m} \cup { [kind |-> k, closes |-> <<>>, gap |-> 0] : k \in {"error", "invalid"} }

\* list.index(x): the first index holding x
list_index(list, x) ==
    CHOOSE i \in 0..(Len(list) - 1) :
        At(list, i) = x /\ \A j \in 0..(i - 1) : At(list, j) # x

\* projections = generate_future_projections_from_point(stock_data, start_idx_full,
\*                   future_points=10, num_lines=projections_per_point) for start point idx
projections_of(sd, idx, per_point) ==
    LET last_20_data == LastN(sd, DisplayPoints)
    IN  IF idx >= Len(last_20_data) THEN <<>>
        ELSE generate_future_projections_from_point(
                 sd, list_index(sd, At(last_20_data, idx)), DefaultFuturePoints, per_point).lines

\* the points of the given projections, in order
RECURSIVE points_of(_, _)
points_of(projections, j) ==
    IF j > Len(projections) THEN <<>>
    ELSE projections[j].data \o points_of(projections, j + 1)

\* the points of the projections of the start points idx .. 19
RECURSIVE projected_points(_, _, _)
projected_points(sd, idx, per_point) ==
    IF idx >= DisplayPoints THEN <<>>
    ELSE points_of(projections_of(sd, idx, per_point), 1)
             \o projected_points(sd, idx + 1, per_point)

\* sorted(keys)
RECURSIVE sorted(_)
sorted(S) ==
    IF S = {} THEN <<>>
    ELSE LET m == CHOOSE x \in S : \A y \in S : x <= y
         IN  <<m>> \o sorted(S \ {m})

\* table rows of the projections of the latest point (Time and Projection
\* columns; the price columns are not modelled)
RECURSIVE latest_rows(_, _)
latest_rows(projections, proj_idx) ==
    IF proj_idx >= Len(projections) THEN <<>>
    ELSE LET data == projections[proj_idx + 1].data
         IN  [i \in 1..(Len(data) - 1) |->
                 [Time |-> convert_to_aest(data[i + 1].date),
                  Projection |-> <<"Latest P", proj_idx + 1>>]]
             \o latest_rows(projections, proj_idx + 1)

\* table rows of an average line over the given points
average_rows(points, name) ==
    LET times == sorted({points[i].date : i \in 1..Len(points)})
    IN  [i \in 1..(Len(times) - 1) |->
            [Time |-> convert_to_aest(times[i + 1]), Projection |-> <<name>>]]

\* all_projection_values at the end of the chart block
chart_projection_values(sd, per_point, clip) ==
    LET points == projected_points(sd, FirstStartPoint, per_point)
    IN  IF clip THEN [i \in 1..Len(points) |-> points[i].close] ELSE <<>>

\* table_data at the end of the chart block
chart_table_data(sd, per_point) ==
    LET latest == projections_of(sd, DisplayPoints - 1, per_point)
    IN  latest_rows(latest, 0)
            \o average_rows(projected_points(sd, FirstStartPoint, per_point), "Average (All)")
            \o average_rows(points_of(latest, 1), "Average (Latest)")

\* the script starts: widgets at a chosen value, nothing fetched yet
LoopInit ==
    /\ DashboardIdle
    /\ clip_projections \in BOOLEAN
    /\ market \in Markets
    /\ pc = "fetch"
    /\ fn = "none"
    /\ interval = DefaultOhlcInterval
    /\ start_idx = 0
    /\ future_points = DefaultFuturePoints
    /\ num_lines \in NumLines
    /\ stock_data = <<>>
    /\ outcome = "none"
    /\ index_keys = <<>>
    /\ future_projections = <<>>

loop_constants == <<market, fn, interval, start_idx, future_points, num_lines,
                    outcome, index_keys, future_projections, clip_projections>>

\* a statement reads a name that is not bound: the script run ends
NameError ==
    /\ script_error' = "NameError"
    /\ pc' = "crashed"

\* stock_data = get_stock_data(...) and the if / else that follows
FetchLatest ==
    /\ pc = "fetch"
    /\ iteration < MaxIterations
    /\ \E answer \in Answers(market) :
         LET sd == get_stock_data(KrakenResponse(answer, interval))
         IN  /\ stock_data' = sd
             /\ IF sd = <<>>
                THEN UNCHANGED <<latest_price, latest_time>>
                ELSE /\ latest_price' = Assigned(sd[Len(sd)].close)
                     /\ latest_time' = Assigned(convert_to_aest(sd[Len(sd)].date))
    /\ pc' = "display_latest"
    /\ UNCHANGED <<loop_constants, table_data, all_projection_values, iteration, script_error>>

\* with latest_price_placeholder / latest_time_placeholder
DisplayLatestPrice ==
    /\ pc = "display_latest"
    /\ IF latest_price.assigned /\ latest_time.assigned
       THEN pc' = "create_chart" /\ UNCHANGED script_error
       ELSE NameError
    /\ UNCHANGED <<loop_constants, stock_data, latest_price, latest_time, table_data,
                   all_projection_values, iteration>>

\* with placeholder_chart.container()
CreateChart ==
    /\ pc = "create_chart"
    /\ IF stock_data # <<>>
       THEN /\ all_projection_values' =
                   Assigned(chart_projection_values(stock_data, num_lines, clip_projections))
            /\ table_data' = Assigned(chart_table_data(stock_data, num_lines))
       ELSE UNCHANGED <<all_projection_values, table_data>>
    /\ pc' = "display_table"
    /\ UNCHANGED <<loop_constants, stock_data, latest_price, latest_time, iteration,
                   script_error>>

\* with placeholder_table.container(): if table_data
DisplayTable ==
    /\ pc = "display_table"
    /\ IF table_data.assigned
       THEN pc' = "show_messages" /\ UNCHANGED script_error
       ELSE NameError
    /\ UNCHANGED <<loop_constants, stock_data, latest_price, latest_time, table_data,
                   all_projection_values, iteration>>

\* with placeholder_debug.container(): if clip_projections and all_projection_values and stock_data
ShowMessages ==
    /\ pc = "show_messages"
    /\ IF clip_projections => all_projection_values.assigned
       THEN pc' = "countdown" /\ UNCHANGED script_error
       ELSE NameError
    /\ UNCHANGED <<loop_constants, stock_data, latest_price, latest_time, table_data,
                   all_projection_values, iteration>>

\* the countdown and the browser tab title, which reads latest_price
CountdownAndTitle ==
    /\ pc = "countdown"
    /\ IF latest_price.assigned
       THEN pc' = "fetch" /\ iteration' = iteration + 1 /\ UNCHANGED script_error
       ELSE NameError /\ UNCHANGED iteration
    /\ UNCHANGED <<loop_constants, stock_data, latest_price, latest_time, table_data,
                   all_projection_values>>

LoopNext ==
    \/ FetchLatest
    \/ DisplayLatestPrice
    \/ CreateChart
    \/ DisplayTable
    \/ ShowMessages
    \/ CountdownAndTitle

LoopSpec == LoopInit /\ [][LoopNext]_vars

----------------------------------------------------------------------------
(* Vocabulary of the properties *)

FromPointDone == pc = "done" /\ fn = "generate_future_projections_from_point"

LatestDone == pc = "done" /\ fn = "generate_future_projections"

\* the movement string of a whole history: one symbol per pair of successive bars
encode(history) ==
    [i \in 1..(Len(history) - 1) |-> Symbol(history[i + 1], history[i])]

\* every offset, overlapping or not, at which pattern p occurs in string s
Occurrences(s, p) == {k \in 0..Len(s) : OccursAt(s, p, k)}

\* the n symbols of the movement string that end at the anchor
TrailingPattern(history, anchor, n) == SubSeq(encode(history), anchor - n + 1, anchor)

\* how often the n-symbol pattern ending at the anchor occurs in the whole movement string
TrailingCount(history, anchor, n) ==
    IF anchor < n \/ anchor >= Len(history) THEN 0
    ELSE Cardinality(Occurrences(encode(history), TrailingPattern(history, anchor, n)))

\* history indices the replay of a match reads: stock_data[pattern_idx] and
\* stock_data[pattern_idx+1] of every step that has a source pair
ReplayReads(sd, key, fp) ==
    UNION { {key + PATTERN_LENGTH + i, key + PATTERN_LENGTH + i + 1} :
                i \in {x \in 0..(fp - 1) : HasSourcePair(key + PATTERN_LENGTH + x, sd)} }

Lines == 1..Len(future_projections)

Dates(j) == [i \in 1..Len(future_projections[j].data) |-> future_projections[j].data[i].date]

\* the bar a call anchors its lines on
Anchor ==
    IF fn = "generate_future_projections_from_point"
    THEN At(stock_data, start_idx)
    ELSE LET fetched == get_stock_data(KrakenResponse(market, interval))
         IN  fetched[Len(fetched)]

----------------------------------------------------------------------------
(* C1: occurrence threshold *)

\* C1: no projection line is produced unless the 6-symbol query pattern occurs
\* at least 3 times in the movement string, the query's own occurrence
\* included; for generate_future_projections_from_point at every anchor.
C1_OccurrenceThreshold ==
    /\ (FromPointDone /\ future_projections # <<>>)
           => TrailingCount(stock_data, start_idx, PATTERN_LENGTH) >= 3
    /\ (LatestDone /\ future_projections # <<>>)
           => Cardinality(Occurrences(result_string(stock_data),
                                      Take(result_string(stock_data), PATTERN_LENGTH))) >= 3

(* C2: a match never overlaps or touches the query window *)

\* C2: every line returned by generate_future_projections_from_point is built
\* from a matched start index k with k + 6 < start_idx.
C2_MatchBeforeQuery ==
    FromPointDone => \A j \in Lines : index_keys[j] + 6 < start_idx

\* a line was returned although the search also found the query's own occurrence
C2_Witness ==
    /\ FromPointDone
    /\ future_projections # <<>>
    /\ \E j \in 1..Len(matches_from_point(stock_data, start_idx)) :
           matches_from_point(stock_data, start_idx)[j] = start_idx - PATTERN_LENGTH

(* C3: no look-ahead in the replay *)

\* C3: every history entry the replay of generate_future_projections_from_point
\* reads lies at or before the anchor index.
C3_NoLookAhead ==
    FromPointDone =>
        \A j \in Lines :
            \A idx \in ReplayReads(stock_data, index_keys[j], future_points) : idx <= start_idx

(* C4: the first point is the anchor *)

\* C4: every returned line has at least one point, and its first point carries
\* exactly the anchor's close and the anchor's date, for either function.
C4_FirstPointIsAnchor ==
    pc = "done" =>
        \A j \in Lines :
            /\ Len(future_projections[j].data) >= 1
            /\ future_projections[j].data[1].close = Anchor.close
            /\ future_projections[j].data[1].date = Anchor.date

\* a line of a zero horizon was returned from an anchor inside the history
C4_Witness ==
    /\ FromPointDone
    /\ future_points = 0
    /\ future_projections # <<>>
    /\ start_idx < Len(stock_data) - 1

(* C5: truncation at the end of the history *)

\* C5: the line of a match at k has exactly 1 + min(future_points, s) points,
\* s = len(stock_data) - 1 - (k + 6) floored at 0.
C5_Truncation ==
    FromPointDone =>
        \A j \in Lines :
            Len(future_projections[j].data) =
                1 + Min(future_points,
                        Max(0, Len(stock_data) - 1 - (index_keys[j] + 6)))

\* a line was cut short by the end of the history
C5_Witness ==
    /\ FromPointDone
    /\ \E j \in Lines :
           /\ Len(future_projections[j].data) > 1
           /\ Len(future_projections[j].data) < 1 + future_points

(* C6: strictly increasing timestamps *)

\* C6: on a strictly ascending history every returned line has strictly
\* increasing point timestamps, for either function.
C6_StrictlyIncreasingDates ==
    pc = "done" =>
        \A j \in Lines :
            \A i \in 1..(Len(Dates(j)) - 1) : Dates(j)[i] < Dates(j)[i + 1]

\* a line of several points on a history with a missing bar
C6_Witness ==
    /\ FromPointDone
    /\ market.gap > 0
    /\ \E j \in Lines : Len(Dates(j)) >= 3

(* C7: uniform time step *)

\* C7: within one line, point i has the timestamp of the anchor plus i times
\* one single time step (for generate_future_projections the step of the interval).
C7_UniformTimeStep ==
    /\ LatestDone =>
           \A j \in Lines :
               \A i \in 1..Len(Dates(j)) :
                   Dates(j)[i] = Dates(j)[1] + (i - 1) * strftime(time_step(interval))
    /\ FromPointDone =>
           \A j \in Lines :
               \A i \in 2..(Len(Dates(j)) - 1) :
                   Dates(j)[i + 1] - Dates(j)[i] = Dates(j)[2] - Dates(j)[1]

(* C8: error outcomes *)

\* C8: with start_idx < 6 the call fails with InsufficientDataError, with
\* start_idx out of the bounds of the history with InvalidIndexError; never
\* the empty result of "no pattern found" (stated on histories that are not empty).
C8_ErrorsAreDistinct ==
    (FromPointDone /\ stock_data # <<>>) =>
        /\ (start_idx < 0 \/ start_idx >= Len(stock_data)) => outcome = "InvalidIndexError"
        /\ (start_idx >= 0 /\ start_idx < Len(stock_data) /\ start_idx < PATTERN_LENGTH)
               => outcome = "InsufficientDataError"

\* C8 as amended: with start_idx < 6 or start_idx out of the bounds of the
\* history the call raises nothing and returns the empty list, the result it
\* also returns when no pattern is found.
C8_ErrorsReturnEmpty ==
    (FromPointDone /\ (start_idx < PATTERN_LENGTH \/ start_idx >= Len(stock_data)))
        => (outcome = "returned" /\ future_projections = <<>>)

\* the anchor is one past the end of a history that is not empty
C8_Witness ==
    /\ FromPointDone
    /\ stock_data # <<>>
    /\ start_idx = Len(stock_data)
    /\ outcome = "returned"
    /\ future_projections = <<>>

(* C9: labels *)

\* C9: two lines of one call generated from different match start indices
\* never carry the same label, for either function.
C9_LabelsDistinguishLines ==
    pc = "done" =>
        \A i, j \in Lines :
            index_keys[i] # index_keys[j]
                => future_projections[i].label # future_projections[j].label

(* C10: pattern length policy *)

\* the length VariableLength(max=8, min=6) accepts for the query ending at the anchor
AcceptedLength(history, anchor) ==
    IF TrailingCount(history, anchor, 8) > 2 THEN 8
    ELSE IF TrailingCount(history, anchor, 7) > 2 THEN 7
    ELSE 6

\* C10: the matcher tries lengths 8, 7, 6 and every projection reports the
\* first length whose pattern occurs more than twice.
C10_VariableLength ==
    FromPointDone =>
        \A j \in Lines :
            future_projections[j].pattern_length = AcceptedLength(stock_data, start_idx)

\* C10 as amended: the matcher is FixedLength(6) only: every line is built
\* from an occurrence of the 6-symbol query and reports pattern length 6,
\* also when the 8- or 7-symbol trailing pattern occurs more than twice.
C10_FixedLength ==
    FromPointDone =>
        \A j \in Lines :
            /\ future_projections[j].pattern_length = 6
            /\ OccursAt(encode(stock_data), TrailingPattern(stock_data, start_idx, 6),
                        index_keys[j])

\* a line was returned where the 8-symbol trailing pattern occurs more than twice
C10_Witness ==
    /\ FromPointDone
    /\ future_projections # <<>>
    /\ TrailingCount(stock_data, start_idx, 8) > 2

----------------------------------------------------------------------------
(* C11: overlapping occurrences *)

\* the elements of a list
Elements(s) == {s[i] : i \in 1..Len(s)}

\* string_to_match of generate_future_projections_from_point
QueryFromPoint == LastN(result_string_from_point(stock_data, start_idx), PATTERN_LENGTH)

\* the anchor passes the guards of generate_future_projections_from_point
AnchorAccepted == start_idx >= PATTERN_LENGTH /\ start_idx < Len(stock_data)

\* C11: the substring search of both functions finds every occurrence of the
\* 6-symbol pattern in the string it searches, overlapping ones included.
C11_OverlappingOccurrencesCount ==
    /\ (FromPointDone /\ AnchorAccepted) =>
           Occurrences(search_string(stock_data), QueryFromPoint)
               \subseteq Elements(matches_from_point(stock_data, start_idx))
    /\ (LatestDone /\ Len(stock_data) > PATTERN_LENGTH) =>
           Occurrences(result_string(stock_data), Take(result_string(stock_data), PATTERN_LENGTH))
               \subseteq Elements(matches_latest(stock_data))

----------------------------------------------------------------------------
(* C12: replay source indices *)

\* equality of two prices as numbers
PriceEq(a, b) == a.n * b.d = b.n * a.d

\* line j replays, step by step, the pairs (k+6+i, k+6+i+1) of the list sd,
\* each pair in chronological order
ReplaysAfterMatch(sd, j) ==
    LET data == future_projections[j].data
    IN  \A i \in 0..(Len(data) - 2) :
            LET src == index_keys[j] + PATTERN_LENGTH + i
            IN  /\ src + 1 < Len(sd)
                /\ At(sd, src).date < At(sd, src + 1).date
                /\ PriceEq(data[i + 2].close,
                           Compound(data[i + 1].close,
                                    PriceChange(At(sd, src).close, At(sd, src + 1).close)))

\* C12 for generate_future_projections_from_point alone
C12_FromPointReplaysAfterMatch ==
    FromPointDone => \A j \in Lines : ReplaysAfterMatch(stock_data, j)

\* C12: for a match at k, replay step i uses j = k + 6 + i, with j walking
\* forward in chronological order, and price[i+1] = price[i] * (1 + (close[j]
\* - close[j+1]) / close[j+1]); for either function.
C12_ReplaySourceIndices ==
    pc = "done" => \A j \in Lines : ReplaysAfterMatch(stock_data, j)

----------------------------------------------------------------------------
(* C13: movement encoding *)

\* the symbol of two neighbouring bars: U exactly when the close of the
\* later bar is >= the close of the earlier bar
ChronologicalSymbol(a, b) == IF a.date < b.date THEN Symbol(b, a) ELSE Symbol(a, b)

\* string is the movement string of the neighbouring bars of list, as encoded above
EncodesChronologically(string, list) ==
    \A i \in 1..Len(string) : string[i] = ChronologicalSymbol(list[i], list[i + 1])

\* C13 for generate_future_projections_from_point alone
C13_FromPointEncoding ==
    (FromPointDone /\ AnchorAccepted) =>
        /\ EncodesChronologically(search_string(stock_data), stock_data)
        /\ EncodesChronologically(result_string_from_point(stock_data, start_idx),
                                  pattern_data(stock_data, start_idx))

\* C13: in every movement string either function builds, a symbol is U exactly
\* when the chronologically later close of its pair is >= the earlier close.
C13_MovementEncoding ==
    /\ C13_FromPointEncoding
    /\ LatestDone => EncodesChronologically(result_string(stock_data), stock_data)

----------------------------------------------------------------------------
(* C14: the string that is searched *)

\* C14: generate_future_projections_from_point searches the movement string
\* of the entire history, len(stock_data) - 1 symbols, so every occurrence of
\* the query at a start index k with k + 6 < start_idx is a candidate match.
C14_WholeHistorySearch ==
    (FromPointDone /\ AnchorAccepted) =>
        /\ Len(search_string(stock_data)) = Len(stock_data) - 1
        /\ \A k \in Occurrences(encode(stock_data), QueryFromPoint) :
               k + 6 < start_idx => k \in Elements(matches_from_point(stock_data, start_idx))

----------------------------------------------------------------------------
(* C15: the dashboard loop reads only assigned variables *)

\* C15: whatever get_stock_data returns in each iteration, no iteration reads
\* latest_price, latest_time, table_data or all_projection_values before a
\* statement has assigned it.
C15_ReadsOnlyAssigned == script_error # "NameError"

====
